---- MODULE Spec2Model ----
(***************************************************************************)
(* A model of abdl, the audio bible downloader.                            *)
(*                                                                         *)
(* The repository holds three revisions of the one script:                 *)
(*   "r1"  src/unnamed/part_000, lines 1-239   (chapters are required)     *)
(*   "r2"  src/abdl.js                         (files named by chapter     *)
(*                                              name)                      *)
(*   "r3"  src/unnamed/part_000, lines 240-519 (range carries the total)   *)
(* The variable rev says which script is run.  Code that is the same text  *)
(* in the three scripts (fetchBookList, printBookList, fetchTranslations,  *)
(* fetchJson, download, the head of main) is modelled once and mapped to   *)
(* src/abdl.js; code that differs has one definition per revision.         *)
(*                                                                         *)
(* Strings are sequences of one-character strings, so that the regular     *)
(* expressions, split, Number, toUpperCase, padStart and replace of the    *)
(* code are computed and not assumed.                                      *)
(***************************************************************************)
EXTENDS Integers, Sequences, FiniteSets

(***************************************************************************)
(* Bounds of the model.                                                    *)
(***************************************************************************)
\* longest command line (number of arguments after the script name)
MaxArgs == 3
\* longest chapter expression of the specification SpecRange
MaxLen == 3
\* largest number of chapters the catalog reports for a book
MaxTotal == 3
\* the longest audio URL drawn from UrlChars
MaxUrlLen == 3

(***************************************************************************)
(* Strings.                                                                *)
(***************************************************************************)
DigitChars == {"0", "1", "2", "3", "4", "5", "6", "7", "8", "9"}

DigitVal(ch) ==
    CASE ch = "0" -> 0 [] ch = "1" -> 1 [] ch = "2" -> 2 [] ch = "3" -> 3
      [] ch = "4" -> 4 [] ch = "5" -> 5 [] ch = "6" -> 6 [] ch = "7" -> 7
      [] ch = "8" -> 8 [] ch = "9" -> 9

DigitChar(d) ==
    CASE d = 0 -> "0" [] d = 1 -> "1" [] d = 2 -> "2" [] d = 3 -> "3"
      [] d = 4 -> "4" [] d = 5 -> "5" [] d = 6 -> "6" [] d = 7 -> "7"
      [] d = 8 -> "8" [] d = 9 -> "9"

\* /^\d+$/
IsDigits(s) == Len(s) > 0 /\ \A i \in 1..Len(s) : s[i] \in DigitChars

\* Number(s) for a string of digits; Number('') is 0
RECURSIVE Number(_)
Number(s) ==
    IF s = <<>> THEN 0
    ELSE 10 * Number(SubSeq(s, 1, Len(s) - 1)) + DigitVal(s[Len(s)])

\* String(n) for an integer n >= 0
RECURSIVE String(_)
String(n) ==
    IF n < 10 THEN <<DigitChar(n)>>
    ELSE Append(String(n \div 10), DigitChar(n % 10))

\* s.padStart(width, '0')
RECURSIVE padStart(_, _)
padStart(s, width) ==
    IF Len(s) >= width THEN s ELSE padStart(<<"0">> \o s, width)

\* s.startsWith(p)
startsWith(s, p) == Len(s) >= Len(p) /\ SubSeq(s, 1, Len(p)) = p

\* the letters of the model's alphabet, upper-cased; every other character
\* of the alphabet (digits, '-', ' ', '_') is left as it is
UpperChar(ch) ==
    CASE ch = "g" -> "G" [] ch = "h" -> "H" [] ch = "l" -> "L"
      [] ch = "i" -> "I" [] ch = "c" -> "C" [] ch = "t" -> "T"
      [] ch = "n" -> "N" [] OTHER -> ch

\* s.toUpperCase()
toUpperCase(s) == [i \in 1..Len(s) |-> UpperChar(s[i])]

\* s.replace(/\s+/g, '_'): every maximal run of whitespace becomes one '_'
RECURSIVE replaceWhitespace(_)
replaceWhitespace(s) ==
    IF s = <<>> THEN <<>>
    ELSE IF s[1] = " "
         THEN IF Len(s) > 1 /\ s[2] = " "
              THEN replaceWhitespace(Tail(s))
              ELSE <<"_">> \o replaceWhitespace(Tail(s))
         ELSE <<s[1]>> \o replaceWhitespace(Tail(s))

\* s.split('-')
RECURSIVE split(_)
split(s) ==
    IF \A i \in 1..Len(s) : s[i] # "-" THEN <<s>>
    ELSE LET k == CHOOSE i \in 1..Len(s) :
                      s[i] = "-" /\ \A j \in 1..(i - 1) : s[j] # "-"
         IN  <<SubSeq(s, 1, k - 1)>> \o split(SubSeq(s, k + 1, Len(s)))

\* s.match(/^\d+(-\d+)?$/)
matchChapters(s) ==
    \/ IsDigits(s)
    \/ \E k \in 1..Len(s) :
          /\ s[k] = "-"
          /\ IsDigits(SubSeq(s, 1, k - 1))
          /\ IsDigits(SubSeq(s, k + 1, Len(s)))

(***************************************************************************)
(* JavaScript values.  A value that may be undefined or null is a record   *)
(* [def, s]; '' is falsy like undefined.                                   *)
(***************************************************************************)
Undefined == [def |-> FALSE, s |-> <<>>]
Str(s) == [def |-> TRUE, s |-> s]
Truthy(v) == v.def /\ v.s # <<>>

\* isNaN(v), for undefined and for the strings of the model's alphabet (which
\* has no whitespace, '.', 'e' or 'x' in an argument): Number(v) is a number
\* when v is empty, digits, or a sign and digits
isNaN(v) ==
    IF ~v.def THEN TRUE
    ELSE ~ \/ v.s = <<>>
           \/ IsDigits(v.s)
           \/ Len(v.s) >= 2 /\ v.s[1] = "-" /\ IsDigits(Tail(v.s))

defaultTranslationId == <<"1", "0", "0">>

(***************************************************************************)
(* The command line.                                                       *)
(***************************************************************************)
ArgH == <<"-", "h">>
ArgL == <<"-", "l">>
ArgI == <<"-", "i">>
ArgC == <<"-", "c">>
ArgT == <<"-", "t">>

\* the arguments a command line of the model is made of
ArgTokens ==
    { ArgH, ArgL, ArgI, ArgC, ArgT, <<"-", "t", "1">>,
      <<"g">>, <<"G">>, <<"1">>, <<"0", "-", "1">>, <<"2", "-", "1">> }

RECURSIVE SeqsUpTo(_, _)
SeqsUpTo(S, n) ==
    IF n = 0 THEN {<<>>}
    ELSE LET shorter == SeqsUpTo(S, n - 1)
         IN  shorter \cup {Append(q, x) : q \in shorter, x \in S}

\* the result object getArgs starts from
NoArgs ==
    [ help |-> FALSE, listBooks |-> FALSE, listTranslations |-> FALSE,
      canonical |-> FALSE, translationId |-> Str(defaultTranslationId),
      chapters |-> Undefined, bookId |-> Undefined ]

\* the loop of getArgs of r2 and r3, from argument i on (process.argv[i + 1])
RECURSIVE getArgsFrom(_, _, _)
getArgsFrom(av, i, result) ==
    IF i > Len(av) THEN result
    ELSE LET arg == av[i] IN
         IF arg = ArgH THEN
             getArgsFrom(av, i + 1, [result EXCEPT !.help = TRUE])
         ELSE IF arg = ArgL THEN
             getArgsFrom(av, i + 1, [result EXCEPT !.listBooks = TRUE])
         ELSE IF arg = ArgI THEN
             getArgsFrom(av, i + 1, [result EXCEPT !.listTranslations = TRUE])
         ELSE IF arg = ArgC THEN
             getArgsFrom(av, i + 1, [result EXCEPT !.canonical = TRUE])
         ELSE IF arg = ArgT THEN
             getArgsFrom(av, i + 2,
                 [result EXCEPT !.translationId =
                     IF i + 1 <= Len(av) THEN Str(av[i + 1]) ELSE Undefined])
         ELSE IF startsWith(arg, ArgT) THEN
             getArgsFrom(av, i + 1,
                 [result EXCEPT !.translationId = Str(SubSeq(arg, 3, Len(arg)))])
         ELSE IF Truthy(result.bookId) THEN
             getArgsFrom(av, i + 1, [result EXCEPT !.chapters = Str(arg)])
         ELSE
             getArgsFrom(av, i + 1,
                 [result EXCEPT !.bookId = Str(toUpperCase(arg))])

getArgs(av) == getArgsFrom(av, 1, NoArgs)

\* the loop of getArgs of r1: no -c flag, and the book id is kept as typed
RECURSIVE getArgsFrom1(_, _, _)
getArgsFrom1(av, i, result) ==
    IF i > Len(av) THEN result
    ELSE LET arg == av[i] IN
         IF arg = ArgH THEN
             getArgsFrom1(av, i + 1, [result EXCEPT !.help = TRUE])
         ELSE IF arg = ArgL THEN
             getArgsFrom1(av, i + 1, [result EXCEPT !.listBooks = TRUE])
         ELSE IF arg = ArgI THEN
             getArgsFrom1(av, i + 1, [result EXCEPT !.listTranslations = TRUE])
         ELSE IF arg = ArgT THEN
             getArgsFrom1(av, i + 2,
                 [result EXCEPT !.translationId =
                     IF i + 1 <= Len(av) THEN Str(av[i + 1]) ELSE Undefined])
         ELSE IF startsWith(arg, ArgT) THEN
             getArgsFrom1(av, i + 1,
                 [result EXCEPT !.translationId = Str(SubSeq(arg, 3, Len(arg)))])
         ELSE IF Truthy(result.bookId) THEN
             getArgsFrom1(av, i + 1, [result EXCEPT !.chapters = Str(arg)])
         ELSE
             getArgsFrom1(av, i + 1, [result EXCEPT !.bookId = Str(arg)])

\* r1 starts from { translationId }: the other fields are undefined, which
\* main reads as false
getArgs1(av) == getArgsFrom1(av, 1, NoArgs)

(***************************************************************************)
(* JSON payloads.  Every payload is a record of the same shape: type says  *)
(* whether the body is the JSON null or an object, and each field of the   *)
(* object carries its own type ("undefined" when the field is missing).    *)
(***************************************************************************)
NoItems == [type |-> "undefined", elems |-> <<>>]
NoAudio == [type |-> "undefined", elems |-> <<>>]
NoReference == [type |-> "undefined", human |-> Undefined]
NoUrls == [type |-> "undefined", format_mp3_32k |-> Undefined]

Array(elems) == [type |-> "array", elems |-> elems]
Reference(name) == [type |-> "object", human |-> name]
Urls(url) == [type |-> "object", format_mp3_32k |-> url]
AudioEntry(urls) == [type |-> "object", download_urls |-> urls]
NullEntry == [type |-> "null", download_urls |-> NoUrls]

Json(items, audio, reference) ==
    [type |-> "object", items |-> items, audio |-> audio, reference |-> reference]
JsonNull ==
    [type |-> "null", items |-> NoItems, audio |-> NoAudio, reference |-> NoReference]
\* no payload at all (the error did not come with one)
NoJson ==
    [type |-> "none", items |-> NoItems, audio |-> NoAudio, reference |-> NoReference]

\* Array.isArray(v)
IsArray(v) == v.type = "array"
\* !!v for a field of a payload: arrays and objects are truthy, a missing
\* field and null are falsy
TruthyField(v) == v.type \in {"array", "object"}

\* what a validation does: returns, throws Error('Unexpected response...')
\* with the payload, or throws a TypeError on reading a field of null
validateResponseHasItems(json) ==
    IF json.type = "null" THEN "TypeError"
    ELSE IF ~IsArray(json.items) THEN "Unexpected"
    ELSE "ok"

\* r1: the items are only required to be truthy
validateResponseHasItems1(json) ==
    IF json.type = "null" THEN "TypeError"
    ELSE IF ~TruthyField(json.items) THEN "Unexpected"
    ELSE "ok"

\* validateMetadataResponse without the test of the format_mp3_32k key
validateMetadataResponseNoKey(json) ==
    IF json.type = "null" THEN "TypeError"
    ELSE IF ~IsArray(json.audio) THEN "Unexpected"
    ELSE IF Len(json.audio.elems) = 0 THEN "Unexpected"
    ELSE IF json.audio.elems[1].type = "null" THEN "TypeError"
    ELSE IF ~TruthyField(json.audio.elems[1].download_urls) THEN "Unexpected"
    ELSE IF ~TruthyField(json.reference) THEN "Unexpected"
    ELSE IF ~Truthy(json.reference.human) THEN "Unexpected"
    ELSE "ok"

validateMetadataResponse(json) ==
    IF json.type = "null" THEN "TypeError"
    ELSE IF ~IsArray(json.audio) THEN "Unexpected"
    ELSE IF Len(json.audio.elems) = 0 THEN "Unexpected"
    ELSE IF json.audio.elems[1].type = "null" THEN "TypeError"
    ELSE IF ~TruthyField(json.audio.elems[1].download_urls) THEN "Unexpected"
    ELSE IF ~Truthy(json.audio.elems[1].download_urls.format_mp3_32k)
         THEN "Unexpected"
    ELSE IF ~TruthyField(json.reference) THEN "Unexpected"
    ELSE IF ~Truthy(json.reference.human) THEN "Unexpected"
    ELSE "ok"

\* r1 and r3 (lines 485-496, the same conditions): the reference is not read
validateMetadataResponse1(json) ==
    IF json.type = "null" THEN "TypeError"
    ELSE IF ~IsArray(json.audio) THEN "Unexpected"
    ELSE IF Len(json.audio.elems) = 0 THEN "Unexpected"
    ELSE IF json.audio.elems[1].type = "null" THEN "TypeError"
    ELSE IF ~TruthyField(json.audio.elems[1].download_urls) THEN "Unexpected"
    ELSE IF ~Truthy(json.audio.elems[1].download_urls.format_mp3_32k)
         THEN "Unexpected"
    ELSE "ok"

(***************************************************************************)
(* Errors: what was thrown, and the payload it carries (NoJson if none).   *)
(***************************************************************************)
Error(kind, payload) == [kind |-> kind, payload |-> payload]
NoError == Error("none", NoJson)

(***************************************************************************)
(* The network.  A request is its kind and, for the per-chapter requests,  *)
(* the chapter.  A response is what the server or the transport does.      *)
(***************************************************************************)
Req(kind, chapter) == [kind |-> kind, chapter |-> chapter]
NoReq == Req("none", 0)

HttpStatuses == {200, 404}

NetError == [net |-> "error", status |-> 0, parsed |-> FALSE, body |-> NoJson]
\* every response to a JSON request whose well-formed bodies are payloads
JsonResponses(payloads) ==
    {NetError}
    \cup {[net |-> "ok", status |-> s, parsed |-> FALSE, body |-> NoJson] :
             s \in HttpStatuses}
    \cup {[net |-> "ok", status |-> s, parsed |-> TRUE, body |-> p] :
             s \in HttpStatuses, p \in payloads}

\* fetchJson: resolves with the parsed body on status 200, rejects with the
\* parsed body on any other status, with the SyntaxError of JSON.parse, or
\* with the error of the request
fetchJson(resp) ==
    IF resp.net = "error" THEN
        [ok |-> FALSE, json |-> NoJson, err |-> Error("NetError", NoJson)]
    ELSE IF ~resp.parsed THEN
        [ok |-> FALSE, json |-> NoJson, err |-> Error("SyntaxError", NoJson)]
    ELSE IF resp.status = 200 THEN
        [ok |-> TRUE, json |-> resp.body, err |-> NoError]
    ELSE
        [ok |-> FALSE, json |-> NoJson, err |-> Error("Rejected", resp.body)]

\* download without the test of the status
downloadAnyStatus(resp) ==
    IF resp.net = "error" THEN [ok |-> FALSE, err |-> Error("NetError", NoJson)]
    ELSE [ok |-> TRUE, err |-> NoError]

\* download: rejects on an error of the request and on a status other than
\* 200, else resolves with the whole body
download(resp) ==
    IF resp.net = "error" THEN [ok |-> FALSE, err |-> Error("NetError", NoJson)]
    ELSE IF resp.status # 200 THEN
        [ok |-> FALSE, err |-> Error("HttpStatus", NoJson)]
    ELSE [ok |-> TRUE, err |-> NoError]

(***************************************************************************)
(* What the server may answer.                                             *)
(***************************************************************************)
\* the catalog's books, in canonical order
BookList ==
    << [usfm |-> <<"L">>, human |-> <<"L">>],
       [usfm |-> <<"G">>, human |-> <<"G", " ", " ", "n">>] >>

TranslationList ==
    << [id |-> <<"1">>, local_title |-> <<"L">>, audio |-> TRUE],
       [id |-> <<"2">>, local_title |-> <<"G">>, audio |-> FALSE] >>

\* n chapters of a book
ChapterList(n) == [i \in 1..n |-> [usfm |-> <<"G">>, human |-> String(i)]]

Catalog(items) == Json(items, NoAudio, NoReference)

\* catalog bodies without a list of items: null, no items field, items null,
\* items an object
MalformedCatalog ==
    { JsonNull, Catalog(NoItems), Catalog([type |-> "null", elems |-> <<>>]),
      Catalog([type |-> "object", elems |-> <<>>]) }

BooksPayloads ==
    MalformedCatalog \cup {Catalog(Array(BookList)), Catalog(Array(<<>>))}
ChaptersPayloads ==
    MalformedCatalog \cup {Catalog(Array(ChapterList(n))) : n \in 0..MaxTotal}
TranslationsPayloads ==
    MalformedCatalog \cup {Catalog(Array(TranslationList))}

RelativeUrl(chapter) == <<"/", "/", "a">> \o String(chapter)
AbsoluteUrl(chapter) == <<"h", ":", "/", "/", "a">> \o String(chapter)
\* the chapter's own name, and a name the server gives to whatever chapter
ChapterName(chapter) == <<"G", " ">> \o String(chapter)
OtherName == <<"G", " ", " ", "1">>

Metadata(audio, reference) == Json(NoItems, audio, reference)
OneAudio(url) == Array(<<AudioEntry(Urls(Str(url)))>>)

\* metadata bodies every revision accepts
GoodMetadata(chapter) ==
    { Metadata(OneAudio(RelativeUrl(chapter)), Reference(Str(ChapterName(chapter)))),
      Metadata(OneAudio(AbsoluteUrl(chapter)), Reference(Str(ChapterName(chapter)))),
      Metadata(OneAudio(AbsoluteUrl(chapter)), Reference(Str(OtherName))) }

\* metadata bodies without a usable audio entry
NoAudioMetadata(chapter) ==
    { Metadata(NoAudio, Reference(Str(ChapterName(chapter)))),
      Metadata(Array(<<>>), Reference(Str(ChapterName(chapter)))),
      Metadata(Array(<<AudioEntry(NoUrls)>>), Reference(Str(ChapterName(chapter)))),
      Metadata(Array(<<AudioEntry(Urls(Undefined))>>),
               Reference(Str(ChapterName(chapter)))) }

\* metadata bodies with audio and without a chapter name
NoNameMetadata(chapter) ==
    { Metadata(OneAudio(RelativeUrl(chapter)), NoReference),
      Metadata(OneAudio(RelativeUrl(chapter)), Reference(Undefined)) }

MetadataPayloads(chapter) ==
    {JsonNull, Metadata(Array(<<NullEntry>>), NoReference)}
    \cup GoodMetadata(chapter) \cup NoAudioMetadata(chapter)
    \cup NoNameMetadata(chapter)

\* the URLs of SpecUrl: every string of at most MaxUrlLen of these characters
\* ('' included, which the validation refuses), and two URLs with a scheme
UrlChars == {"/", ":", "a"}
Https == <<"h", "t", "t", "p", "s", ":">>
UrlInputs ==
    SeqsUpTo(UrlChars, MaxUrlLen)
    \cup {Https \o <<"/", "/", "a">>, <<"h", "t", "t", "p", ":", "/", "/", "a">>}

\* well-formed metadata bodies with any of these URLs
UrlMetadata(chapter) ==
    { Metadata(OneAudio(url), Reference(Str(ChapterName(chapter)))) :
         url \in UrlInputs }

(***************************************************************************)
(* Chapter ranges.  A result is [ok, result, err]: the array returned, or  *)
(* the kind of the Error thrown.                                           *)
(***************************************************************************)
Returned(result) == [ok |-> TRUE, result |-> result, err |-> "none"]
Thrown(kind) == [ok |-> FALSE, result |-> <<>>, err |-> kind]

\* chapterArg.split('-').map(Number)
splitNumbers(s) == LET parts == split(s) IN [i \in 1..Len(parts) |-> Number(parts[i])]

\* result[1] of the code, as a condition: the second number is there and is
\* not 0
HasEnd(result) == Len(result) >= 2 /\ result[2] # 0

\* r1: the numbers of the expression, one or two
parseChapters(chapterArg) ==
    IF ~matchChapters(chapterArg) THEN Thrown("ChapterFormat")
    ELSE LET result == splitNumbers(chapterArg) IN
         IF HasEnd(result) /\ result[2] <= result[1] THEN Thrown("InvalidRange")
         ELSE Returned(result)

\* r2, for a chapter expression that is given (lines 223-231): [start, end]
getChapterRange(chapterArg) ==
    IF ~matchChapters(chapterArg) THEN Thrown("ChapterFormat")
    ELSE LET result == splitNumbers(chapterArg) IN
         IF HasEnd(result) /\ result[2] <= result[1] THEN Thrown("InvalidRange")
         ELSE Returned(<<result[1], IF HasEnd(result) THEN result[2] ELSE result[1]>>)

\* getChapterRange of r3 without the test of the range
getChapterRange3Unchecked(chapterArg, total) ==
    IF ~Truthy(chapterArg) THEN Returned(<<1, total, total>>)
    ELSE LET range == splitNumbers(chapterArg.s) IN
         Returned(<<range[1], IF HasEnd(range) THEN range[2] ELSE range[1], total>>)

\* r3, once the total is known (lines 471-482): [start, end, total]; the
\* expression has matched the pattern before the total was fetched
getChapterRange3(chapterArg, total) ==
    IF ~Truthy(chapterArg) THEN Returned(<<1, total, total>>)
    ELSE LET range == splitNumbers(chapterArg.s) IN
         IF HasEnd(range) /\ range[2] <= range[1] THEN Thrown("InvalidRange")
         ELSE Returned(<<range[1], IF HasEnd(range) THEN range[2] ELSE range[1],
                         total>>)

(***************************************************************************)
(* Directory and file names.                                               *)
(***************************************************************************)
Mp3 == <<".", "m", "p", "3">>

\* path.join(dir, file), for names without '/' or '.' components
join(dir, file) == dir \o <<"/">> \o file

\* findIndex falling back to the last item instead of -1
findIndexOrLast(items, bookId) ==
    IF \E i \in 1..Len(items) : items[i].usfm = bookId
    THEN (CHOOSE i \in 1..Len(items) :
              items[i].usfm = bookId /\ \A j \in 1..(i - 1) : items[j].usfm # bookId) - 1
    ELSE Len(items) - 1

\* items.findIndex(item => item.usfm === bookId): 0-based, -1 if there is none
findIndex(items, bookId) ==
    IF \E i \in 1..Len(items) : items[i].usfm = bookId
    THEN (CHOOSE i \in 1..Len(items) :
              items[i].usfm = bookId /\ \A j \in 1..(i - 1) : items[j].usfm # bookId) - 1
    ELSE -1

\* r2: the directory name mkdir makes for items[index]
mkdir(items, index, canonical) ==
    LET dirname == replaceWhitespace(items[index + 1].human) IN
    IF canonical THEN padStart(String(index + 1), 2) \o <<"-">> \o dirname
    ELSE dirname

\* r1
mkdir1(items, index) == replaceWhitespace(items[index + 1].human)

\* r3
fetchBookInfo(items, index) ==
    [bookName |-> replaceWhitespace(items[index + 1].human),
     canonicalIndex |-> index + 1]

\* r3: canonicalIndex is `canonical && canonicalIndex`, 0 standing for false
mkdir3(bookName, canonicalIndex) ==
    IF canonicalIndex # 0 THEN padStart(String(canonicalIndex), 2) \o <<"-">> \o bookName
    ELSE bookName

\* r2
getOutputFilePath(dirname, chapterName) ==
    join(dirname, replaceWhitespace(chapterName) \o Mp3)

\* r1; path.basename(dirname) is dirname, which has no '/'
getOutputFilePath1(dirname, chapter) ==
    join(dirname, dirname \o <<"_">> \o String(chapter) \o Mp3)

\* r3
getOutputFilePath3(dirname, bookName, chapter, totalChapters) ==
    LET paddedChapter == padStart(String(chapter), Len(String(totalChapters))) IN
    join(dirname, bookName \o <<"-">> \o paddedChapter \o Mp3)

\* the scheme prefixed to every URL that starts with one '/'
normalizeUrlOneSlash(audioUrl) ==
    IF startsWith(audioUrl, <<"/">>)
    THEN <<"h", "t", "t", "p", "s", ":">> \o audioUrl
    ELSE audioUrl

\* audioUrl.startsWith('//') ? ('https:' + audioUrl) : audioUrl
normalizeUrl(audioUrl) ==
    IF startsWith(audioUrl, <<"/", "/">>)
    THEN <<"h", "t", "t", "p", "s", ":">> \o audioUrl
    ELSE audioUrl

(***************************************************************************)
(* The state of one run.                                                   *)
(***************************************************************************)
VARIABLES
    rev,            \* the script that is run
    argv,           \* process.argv, from index 2 on
    pc,             \* where main is
    ret,            \* where fetchBookList returns to
    args,           \* the result of getArgs
    bookListCache,  \* the module's bookListCache (type "null" when null)
    range,          \* the array the range resolver returned
    bookName,       \* r3: the book name of fetchBookInfo
    dirname,        \* the directory made
    c,              \* the loop's chapter
    audioUrl, chapterName, outputPath,  \* the loop's variables
    err,            \* the error thrown to main's catch
    exitCode,       \* -1 while the process runs
    inflight,       \* the requests sent and not yet answered
    reqLog,         \* every request sent, in order
    got,            \* the last JSON response received, with its request
    dirs,           \* the directories on disk
    files,          \* the files on disk: path -> chapter whose audio it holds
    writes,         \* every file write that succeeded, in order
    log,            \* what was printed, in order
    failed          \* a step of the run has failed

vars ==
    << rev, argv, pc, ret, args, bookListCache, range, bookName, dirname, c,
       audioUrl, chapterName, outputPath, err, exitCode, inflight, reqLog, got,
       dirs, files, writes, log, failed >>

input == <<rev, argv>>
loopVars == <<c, audioUrl, chapterName, outputPath>>
diskVars == <<dirs, files, writes>>
netVars == <<inflight, reqLog, got>>
resolved == <<range, bookName, dirname>>

Revisions == {"r1", "r2", "r3"}

NullCache == [type |-> "null", elems |-> <<>>]
NoResponse == [req |-> NoReq, resp |-> NetError]

Start ==
    /\ pc = "main"
    /\ ret = "none"
    /\ args = NoArgs
    /\ bookListCache = NullCache
    /\ range = <<>>
    /\ bookName = <<>>
    /\ dirname = <<>>
    /\ c = 0
    /\ audioUrl = <<>>
    /\ chapterName = <<>>
    /\ outputPath = <<>>
    /\ err = NoError
    /\ exitCode = -1
    /\ inflight = {}
    /\ reqLog = <<>>
    /\ got = NoResponse
    /\ dirs = {}
    /\ files = <<>>
    /\ writes = <<>>
    /\ log = <<>>
    /\ failed = FALSE

\* any command line of at most MaxArgs arguments, run by any revision
Init ==
    /\ rev \in Revisions
    /\ argv \in SeqsUpTo(ArgTokens, MaxArgs)
    /\ Start

\* the characters of the chapter expressions of SpecRange
ChapterChars == {"0", "1", "2", "-", "g"}

\* a book and any chapter expression of at most MaxLen characters, or none
InitRange ==
    /\ rev \in Revisions
    /\ argv \in {<<<<"G">>>>} \cup {<<<<"G">>, s>> : s \in SeqsUpTo(ChapterChars, MaxLen)}
    /\ Start

(***************************************************************************)
(* Steps shared by the actions.                                            *)
(***************************************************************************)
Console(fd, what, list) == log' = Append(log, [fd |-> fd, what |-> what, list |-> list])
Throw(e) == pc' = "catch" /\ err' = e
Goto(p) == pc' = p /\ UNCHANGED err
Send(r) == inflight' = inflight \cup {r} /\ reqLog' = Append(reqLog, r)
\* the transport or the server failed the request
BadResponse(resp) == resp.net = "error" \/ ~resp.parsed \/ resp.status # 200
\* the run has failed once the environment failed a step or an error was thrown
Failed(envFailure) == failed' = (failed \/ envFailure \/ pc' = "catch")

hasItems(json) ==
    IF rev = "r1" THEN validateResponseHasItems1(json)
    ELSE validateResponseHasItems(json)

hasAudio(json) ==
    IF rev = "r2" THEN validateMetadataResponse(json)
    ELSE validateMetadataResponse1(json)

\* the test of the informational modes without listBooks
informationalWithoutList(a) == a.help \/ a.listTranslations

\* help || listTranslations || listBooks
informational(a) == a.help \/ a.listTranslations \/ a.listBooks

\* what a failed validation throws: the Error carries the payload, the
\* TypeError does not
Invalid(verdict, json) ==
    Error(verdict, IF verdict = "Unexpected" THEN json ELSE NoJson)

\* fs.promises.writeFile(path, data)
writeFile(disk, path, data) ==
    [p \in DOMAIN disk \cup {path} |-> IF p = path THEN data ELSE disk[p]]

(***************************************************************************)
(* main, up to the end of the informational modes.                         *)
(***************************************************************************)
\* main: getArgs, and the help of -h
Main ==
    /\ pc = "main"
    /\ args' = IF rev = "r1" THEN getArgs1(argv) ELSE getArgs(argv)
    /\ IF args'.help THEN Console("out", "help", <<>>) ELSE UNCHANGED log
    /\ Goto("listTranslations")
    /\ Failed(FALSE)
    /\ UNCHANGED <<input, ret, bookListCache, resolved, loopVars, exitCode,
                   netVars, diskVars>>

\* main: if (listTranslations) printTranslations(), up to the request of
\* fetchTranslations
PrintTranslations ==
    /\ pc = "listTranslations"
    /\ IF args.listTranslations
       THEN Send(Req("translations", 0)) /\ Goto("fetchTranslations")
       ELSE Goto("checkTranslationId") /\ UNCHANGED <<inflight, reqLog>>
    /\ Failed(FALSE)
    /\ UNCHANGED <<input, ret, args, bookListCache, resolved, loopVars, exitCode,
                   got, diskVars, log>>

\* fetchTranslations from the response on, and printTranslations' output
FetchTranslations ==
    /\ pc = "fetchTranslations"
    /\ \E resp \in JsonResponses(TranslationsPayloads) :
          LET r == fetchJson(resp)
              verdict == hasItems(r.json)
          IN  /\ inflight' = inflight \ {Req("translations", 0)}
              /\ got' = [req |-> Req("translations", 0), resp |-> resp]
              /\ IF ~r.ok THEN Throw(r.err) /\ UNCHANGED log
                 ELSE IF verdict # "ok"
                      THEN Throw(Invalid(verdict, r.json)) /\ UNCHANGED log
                 ELSE IF ~IsArray(r.json.items)  \* items.filter is not a function
                      THEN Throw(Error("TypeError", NoJson)) /\ UNCHANGED log
                 ELSE /\ Console("out", "translations",
                                 SelectSeq(r.json.items.elems, LAMBDA item : item.audio))
                      /\ Goto("checkTranslationId")
              /\ Failed(BadResponse(resp))
    /\ UNCHANGED <<input, ret, args, bookListCache, resolved, loopVars, exitCode,
                   reqLog, diskVars>>

\* main: the translation id must be a number
CheckTranslationId ==
    /\ pc = "checkTranslationId"
    /\ IF isNaN(args.translationId)
       THEN /\ Console("err", "help", <<>>)
            /\ Throw(Error("InvalidTranslationId", NoJson))
       ELSE Goto("listBooks") /\ UNCHANGED log
    /\ Failed(FALSE)
    /\ UNCHANGED <<input, ret, args, bookListCache, resolved, loopVars, exitCode,
                   netVars, diskVars>>

\* main: if (listBooks) printBookList(translationId)
ListBooks ==
    /\ pc = "listBooks"
    /\ IF args.listBooks
       THEN Goto("fetchBookList") /\ ret' = "printBookList"
       ELSE Goto("exitCheck") /\ UNCHANGED ret
    /\ Failed(FALSE)
    /\ UNCHANGED <<input, args, bookListCache, resolved, loopVars, exitCode,
                   netVars, diskVars, log>>

\* fetchBookList without the test of the cache
FetchBookListUncached ==
    /\ pc = "fetchBookList"
    /\ Send(Req("books", 0))
    /\ Goto("fetchBookListResponse")
    /\ Failed(FALSE)
    /\ UNCHANGED <<input, ret, args, bookListCache, resolved, loopVars, exitCode,
                   got, diskVars, log>>

\* fetchBookList, up to its request: the cached list is returned if there is
\* one
FetchBookList ==
    /\ pc = "fetchBookList"
    /\ IF TruthyField(bookListCache)
       THEN Goto(ret) /\ UNCHANGED <<inflight, reqLog>>
       ELSE Send(Req("books", 0)) /\ Goto("fetchBookListResponse")
    /\ Failed(FALSE)
    /\ UNCHANGED <<input, ret, args, bookListCache, resolved, loopVars, exitCode,
                   got, diskVars, log>>

\* fetchBookList from the response on
FetchBookListResponse ==
    /\ pc = "fetchBookListResponse"
    /\ \E resp \in JsonResponses(BooksPayloads) :
          LET r == fetchJson(resp)
              verdict == hasItems(r.json)
          IN  /\ inflight' = inflight \ {Req("books", 0)}
              /\ got' = [req |-> Req("books", 0), resp |-> resp]
              /\ IF ~r.ok THEN Throw(r.err) /\ UNCHANGED bookListCache
                 ELSE IF verdict # "ok"
                      THEN Throw(Invalid(verdict, r.json)) /\ UNCHANGED bookListCache
                 ELSE bookListCache' = r.json.items /\ Goto(ret)
              /\ Failed(BadResponse(resp))
    /\ UNCHANGED <<input, ret, args, resolved, loopVars, exitCode, reqLog,
                   diskVars, log>>

\* printBookList once fetchBookList has returned: to the standard output for
\* -l, to the error output (and then the throw of mkdir) for a book not found
PrintBookList ==
    /\ pc \in {"printBookList", "printBookListError"}
    /\ IF ~IsArray(bookListCache)  \* items.forEach is not a function
       THEN Throw(Error("TypeError", NoJson)) /\ UNCHANGED log
       ELSE IF pc = "printBookList"
            THEN Console("out", "books", bookListCache.elems) /\ Goto("exitCheck")
            ELSE /\ Console("err", "books", bookListCache.elems)
                 /\ Throw(Error("NotFound", NoJson))
    /\ Failed(FALSE)
    /\ UNCHANGED <<input, ret, args, bookListCache, resolved, loopVars, exitCode,
                   netVars, diskVars>>

\* main: the exit of the informational modes, then the arguments a download
\* needs (r1 needs the chapters too)
ExitCheck ==
    /\ pc = "exitCheck"
    /\ IF informational(args)
       THEN pc' = "exited" /\ exitCode' = 0 /\ UNCHANGED <<err, log>>
       ELSE IF ~Truthy(args.bookId)
            THEN /\ Console("err", "help", <<>>)
                 /\ Throw(Error("BookIdRequired", NoJson))
                 /\ UNCHANGED exitCode
       ELSE IF rev = "r1" /\ ~Truthy(args.chapters)
            THEN /\ Console("err", "help", <<>>)
                 /\ Throw(Error("ChaptersRequired", NoJson))
                 /\ UNCHANGED exitCode
       ELSE Goto("getChapterRange") /\ UNCHANGED <<exitCode, log>>
    /\ Failed(FALSE)
    /\ UNCHANGED <<input, ret, args, bookListCache, resolved, loopVars,
                   netVars, diskVars>>

(***************************************************************************)
(* The download: range, directory, and the loop over the chapters.         *)
(***************************************************************************)
\* a resolver of r2 that asks the catalog for the chapters in every case
ResolveRangeFetchFirst ==
    /\ pc = "getChapterRange"
    /\ LET parsed == IF rev = "r1" THEN parseChapters(args.chapters.s)
                     ELSE getChapterRange(args.chapters.s)
           asks == IF rev = "r2" THEN TRUE
                   ELSE rev = "r3" /\ (~Truthy(args.chapters)
                                       \/ matchChapters(args.chapters.s))
       IN  IF asks
           THEN /\ Send(Req("chapters", 0))
                /\ Goto("fetchChapters")
                /\ UNCHANGED range
           ELSE IF rev = "r3"
                THEN /\ Throw(Error("ChapterFormat", NoJson))
                     /\ UNCHANGED <<range, inflight, reqLog>>
           ELSE IF parsed.ok
                THEN /\ range' = parsed.result
                     /\ Goto("mkdir")
                     /\ UNCHANGED <<inflight, reqLog>>
           ELSE /\ Throw(Error(parsed.err, NoJson))
                /\ UNCHANGED <<range, inflight, reqLog>>
    /\ Failed(FALSE)
    /\ UNCHANGED <<input, ret, args, bookListCache, bookName, dirname, loopVars,
                   exitCode, got, diskVars, log>>

\* the call of the range resolver, up to its request if it makes one:
\* r1 parseChapters(chapters); r2 getChapterRange, which asks the catalog only
\* when no expression is given; r3 getChapterRange, which checks the pattern
\* and then always asks the catalog
ResolveRange ==
    /\ pc = "getChapterRange"
    /\ LET parsed == IF rev = "r1" THEN parseChapters(args.chapters.s)
                     ELSE getChapterRange(args.chapters.s)
           asks == IF rev = "r2" THEN ~Truthy(args.chapters)
                   ELSE rev = "r3" /\ (~Truthy(args.chapters)
                                       \/ matchChapters(args.chapters.s))
       IN  IF asks
           THEN /\ Send(Req("chapters", 0))
                /\ Goto("fetchChapters")
                /\ UNCHANGED range
           ELSE IF rev = "r3"
                THEN /\ Throw(Error("ChapterFormat", NoJson))
                     /\ UNCHANGED <<range, inflight, reqLog>>
           ELSE IF parsed.ok
                THEN /\ range' = parsed.result
                     /\ Goto("mkdir")
                     /\ UNCHANGED <<inflight, reqLog>>
           ELSE /\ Throw(Error(parsed.err, NoJson))
                /\ UNCHANGED <<range, inflight, reqLog>>
    /\ Failed(FALSE)
    /\ UNCHANGED <<input, ret, args, bookListCache, bookName, dirname, loopVars,
                   exitCode, got, diskVars, log>>

\* the range resolver of r2 and r3 from the catalog's response on
FetchChapters ==
    /\ pc = "fetchChapters"
    /\ \E resp \in JsonResponses(ChaptersPayloads) :
          LET r == fetchJson(resp)
              verdict == hasItems(r.json)
              total == Len(r.json.items.elems)
              result == IF rev = "r2" THEN Returned(<<1, total>>)
                        ELSE getChapterRange3(args.chapters, total)
          IN  /\ inflight' = inflight \ {Req("chapters", 0)}
              /\ got' = [req |-> Req("chapters", 0), resp |-> resp]
              /\ IF ~r.ok THEN Throw(r.err) /\ UNCHANGED range
                 ELSE IF verdict # "ok"
                      THEN Throw(Invalid(verdict, r.json)) /\ UNCHANGED range
                 ELSE IF ~result.ok
                      THEN Throw(Error(result.err, NoJson)) /\ UNCHANGED range
                 ELSE range' = result.result /\ Goto("mkdir")
              /\ Failed(BadResponse(resp))
    /\ UNCHANGED <<input, ret, args, bookListCache, bookName, dirname, loopVars,
                   exitCode, reqLog, diskVars, log>>

\* mkdir (r3: fetchBookInfo): the call of fetchBookList
Mkdir ==
    /\ pc = "mkdir"
    /\ Goto("fetchBookList")
    /\ ret' = "findBook"
    /\ Failed(FALSE)
    /\ UNCHANGED <<input, args, bookListCache, resolved, loopVars, exitCode,
                   netVars, diskVars, log>>

\* mkdir (r3: fetchBookInfo, then mkdir) once fetchBookList has returned: the
\* book is looked up; if it is not there the list is printed (through
\* fetchBookList again); else the directory is made, which may fail, and the
\* loop starts
FindBook ==
    /\ pc = "findBook"
    /\ \E made \in BOOLEAN :
          LET items == bookListCache.elems
              index == findIndex(items, args.bookId.s)
              info == fetchBookInfo(items, index)
              name == CASE rev = "r1" -> mkdir1(items, index)
                        [] rev = "r2" -> mkdir(items, index, args.canonical)
                        [] rev = "r3" ->
                             mkdir3(info.bookName,
                                    IF args.canonical THEN info.canonicalIndex ELSE 0)
          IN  IF ~IsArray(bookListCache)  \* items.find is not a function
              THEN /\ Throw(Error("TypeError", NoJson))
                   /\ UNCHANGED <<ret, bookName, dirname, c, dirs>>
                   /\ Failed(FALSE)
              ELSE IF index < 0
              THEN /\ Goto("fetchBookList")
                   /\ ret' = "printBookListError"
                   /\ UNCHANGED <<bookName, dirname, c, dirs>>
                   /\ Failed(FALSE)
              ELSE IF ~made
              THEN /\ Throw(Error("IoError", NoJson))
                   /\ UNCHANGED <<ret, bookName, dirname, c, dirs>>
                   /\ Failed(TRUE)
              ELSE /\ bookName' = IF rev = "r3" THEN info.bookName ELSE bookName
                   /\ dirname' = name
                   /\ dirs' = dirs \cup {name}
                   /\ c' = range[1]
                   /\ Goto("loop")
                   /\ UNCHANGED ret
                   /\ Failed(FALSE)
    /\ UNCHANGED <<input, args, bookListCache, range, audioUrl, chapterName,
                   outputPath, exitCode, netVars, files, writes, log>>

\* the last chapter of the loop: r1 reads (end || start)
loopEnd(result) ==
    IF rev = "r1" THEN (IF HasEnd(result) THEN result[2] ELSE result[1])
    ELSE result[2]

\* the loop's test, and the request of the chapter's metadata (r1 computes
\* the output path first); after the last chapter main prints and returns
Loop ==
    /\ pc = "loop"
    /\ IF c <= loopEnd(range)
       THEN /\ Send(Req("metadata", c))
            /\ Goto("fetchMetadata")
            /\ outputPath' = IF rev = "r1" THEN getOutputFilePath1(dirname, c)
                             ELSE outputPath
            /\ UNCHANGED <<exitCode, log>>
       ELSE /\ Console("out", "finished", <<>>)
            /\ pc' = "exited"
            /\ exitCode' = 0
            /\ UNCHANGED <<err, inflight, reqLog, outputPath>>
    /\ Failed(FALSE)
    /\ UNCHANGED <<input, ret, args, bookListCache, resolved, c, audioUrl,
                   chapterName, got, diskVars>>

\* fetchMetadata (r1 getAudioUrl, r3 fetchAudioUrl) from the response on,
\* the output path of r2 and r3, and the request of download
FetchMetadataFrom(payloads) ==
    /\ pc = "fetchMetadata"
    /\ \E resp \in JsonResponses(payloads) :
          LET r == fetchJson(resp)
              verdict == hasAudio(r.json)
              url == normalizeUrl(r.json.audio.elems[1].download_urls.format_mp3_32k.s)
              name == r.json.reference.human.s
          IN  /\ got' = [req |-> Req("metadata", c), resp |-> resp]
              /\ IF ~r.ok \/ verdict # "ok"
                 THEN /\ Throw(IF ~r.ok THEN r.err ELSE Invalid(verdict, r.json))
                      /\ inflight' = inflight \ {Req("metadata", c)}
                      /\ UNCHANGED <<audioUrl, chapterName, outputPath, reqLog>>
                 ELSE /\ audioUrl' = url
                      /\ chapterName' = IF rev = "r2" THEN name ELSE chapterName
                      /\ outputPath' =
                            CASE rev = "r1" -> outputPath
                              [] rev = "r2" -> getOutputFilePath(dirname, name)
                              [] rev = "r3" ->
                                   getOutputFilePath3(dirname, bookName, c, range[3])
                      /\ inflight' = (inflight \ {Req("metadata", c)})
                                         \cup {Req("audio", c)}
                      /\ reqLog' = Append(reqLog, Req("audio", c))
                      /\ Goto("download")
              /\ Failed(BadResponse(resp))
    /\ UNCHANGED <<input, ret, args, bookListCache, resolved, c, exitCode,
                   diskVars, log>>

FetchMetadata == FetchMetadataFrom(MetadataPayloads(c))

\* fetchMetadata answered with any URL of UrlInputs
FetchMetadataUrl == FetchMetadataFrom(UrlMetadata(c))

\* what the audio server or the transport may do
AudioResponses ==
    {NetError}
    \cup {[net |-> "ok", status |-> s, parsed |-> FALSE, body |-> NoJson] :
             s \in HttpStatuses}

\* download called without await: the loop goes on while the request is in
\* flight
DownloadUnawaited ==
    /\ pc = "download"
    /\ c' = c + 1
    /\ Goto("loop")
    /\ Failed(FALSE)
    /\ UNCHANGED <<input, ret, args, bookListCache, resolved, audioUrl,
                   chapterName, outputPath, exitCode, netVars, diskVars, log>>

\* download from the response on, up to the call of writeFile
Download ==
    /\ pc = "download"
    /\ \E resp \in AudioResponses :
          LET r == download(resp)
          IN  /\ inflight' = inflight \ {Req("audio", c)}
              /\ IF r.ok THEN Goto("writeFile") ELSE Throw(r.err)
              /\ Failed(resp.net = "error" \/ resp.status # 200)
    /\ UNCHANGED <<input, ret, args, bookListCache, resolved, loopVars, exitCode,
                   reqLog, got, diskVars, log>>

\* writeFile, which may fail, and the loop's c++
WriteFile ==
    /\ pc = "writeFile"
    /\ \E written \in BOOLEAN :
          IF written
          THEN /\ files' = writeFile(files, outputPath, c)
               /\ writes' = Append(writes, [chapter |-> c, path |-> outputPath])
               /\ c' = c + 1
               /\ Goto("loop")
               /\ Failed(FALSE)
          ELSE /\ Throw(Error("IoError", NoJson))
               /\ UNCHANGED <<files, writes, c>>
               /\ Failed(TRUE)
    /\ UNCHANGED <<input, ret, args, bookListCache, resolved, audioUrl,
                   chapterName, outputPath, exitCode, netVars, dirs, log>>

\* a catch that ends the process with process.exit()
CatchExitDefault ==
    /\ pc = "catch"
    /\ Console("err", "error", <<>>)
    /\ pc' = "exited"
    /\ exitCode' = 0
    /\ UNCHANGED <<input, ret, args, bookListCache, resolved, loopVars, err,
                   netVars, diskVars, failed>>

\* main's catch: the error is printed and the process exits with 1
Catch ==
    /\ pc = "catch"
    /\ Console("err", "error", <<>>)
    /\ pc' = "exited"
    /\ exitCode' = 1
    /\ UNCHANGED <<input, ret, args, bookListCache, resolved, loopVars, err,
                   netVars, diskVars, failed>>

Next ==
    \/ Main
    \/ PrintTranslations
    \/ FetchTranslations
    \/ CheckTranslationId
    \/ ListBooks
    \/ FetchBookList
    \/ FetchBookListResponse
    \/ PrintBookList
    \/ ExitCheck
    \/ ResolveRange
    \/ FetchChapters
    \/ Mkdir
    \/ FindBook
    \/ Loop
    \/ FetchMetadata
    \/ Download
    \/ WriteFile
    \/ Catch

Spec == Init /\ [][Next]_vars

\* the run up to the resolved range, for every chapter expression
NextRange ==
    \/ Main
    \/ PrintTranslations
    \/ CheckTranslationId
    \/ ListBooks
    \/ ExitCheck
    \/ ResolveRange
    \/ FetchChapters
    \/ Catch

SpecRange == InitRange /\ [][NextRange]_vars

\* the download of one chapter of a book, the server giving any audio URL
InitUrl ==
    /\ rev \in Revisions
    /\ argv = << <<"G">>, <<"1">> >>
    /\ Start

NextUrl ==
    \/ Main
    \/ PrintTranslations
    \/ CheckTranslationId
    \/ ListBooks
    \/ ExitCheck
    \/ ResolveRange
    \/ FetchChapters
    \/ Mkdir
    \/ FetchBookList
    \/ FetchBookListResponse
    \/ FindBook
    \/ PrintBookList
    \/ Loop
    \/ FetchMetadataUrl
    \/ Download
    \/ WriteFile
    \/ Catch

SpecUrl == InitUrl /\ [][NextUrl]_vars

\* the whole run of a download, for every chapter expression
NextChapters ==
    \/ Main
    \/ PrintTranslations
    \/ CheckTranslationId
    \/ ListBooks
    \/ ExitCheck
    \/ ResolveRange
    \/ FetchChapters
    \/ Mkdir
    \/ FetchBookList
    \/ FetchBookListResponse
    \/ FindBook
    \/ PrintBookList
    \/ Loop
    \/ FetchMetadata
    \/ Download
    \/ WriteFile
    \/ Catch

SpecChapters == InitRange /\ [][NextChapters]_vars

(***************************************************************************)
(* Properties.                                                             *)
(***************************************************************************)
\* the requests of one kind sent so far
Requests(kind) == SelectSeq(reqLog, LAMBDA r : r.kind = kind)
\* the per-chapter requests sent so far
ChapterRequests == SelectSeq(reqLog, LAMBDA r : r.kind \in {"metadata", "audio"})
\* the run has ended
Exited == pc = "exited"

\* C1: the chapters are processed in ascending order, one at a time: the
\* per-chapter requests are metadata(start), audio(start), metadata(start+1),
\* ..., none after end; the writes are those of start, start+1, ...;
\* chapter k's metadata is requested only when the k - start chapters before
\* it are written; at most one request, the last one sent, is in flight
C1_OneChapterAtATime ==
    LET n == Len(ChapterRequests) IN
    /\ Cardinality(inflight) <= 1
    /\ \A r \in inflight : reqLog # <<>> /\ r = reqLog[Len(reqLog)]
    /\ \A i \in 1..n :
          ChapterRequests[i] =
              Req(IF i % 2 = 1 THEN "metadata" ELSE "audio", range[1] + (i - 1) \div 2)
    /\ \A i \in 1..n : ChapterRequests[i].chapter <= loopEnd(range)
    /\ \A i \in 1..Len(writes) : writes[i].chapter = range[1] + i - 1
    /\ (n - 1) \div 2 <= Len(writes)
    /\ Len(writes) <= n \div 2

\* a run that has written two chapters and is waiting for the metadata of a
\* third
C1_Witness ==
    /\ pc = "fetchMetadata"
    /\ Len(writes) = 2
    /\ inflight = {Req("metadata", range[1] + 2)}

\* C2: once a step has failed, no request is sent, no file is written and no
\* directory is made, and the step that fails leaves the files as they were
C2_FailFast ==
    [][ /\ failed' => files' = files
        /\ failed => /\ reqLog' = reqLog
                     /\ writes' = writes
                     /\ dirs' = dirs
                     /\ failed' ]_vars

\* a run that failed after it had written a chapter, and has ended with the
\* file on disk
C2_Witness ==
    /\ Exited
    /\ failed
    /\ Len(writes) = 1
    /\ DOMAIN files = {writes[1].path}

\* C3: in a run with -h, -i or -l, no chapter count, no chapter metadata and
\* no audio is requested, no directory is made and no file is written
C3_InformationalModes ==
    (args.help \/ args.listTranslations \/ args.listBooks) =>
        /\ Requests("chapters") = <<>>
        /\ ChapterRequests = <<>>
        /\ dirs = {}
        /\ files = <<>>
        /\ writes = <<>>

\* a run with -l, a book of the catalog and a chapter expression, ended
C3_Witness ==
    /\ Exited
    /\ exitCode = 0
    /\ args.listBooks
    /\ args.bookId = Str(<<"G">>)
    /\ Truthy(args.chapters)

\* C4: at most one book-list request is sent in a run, and a lookup after
\* the first (the print of the list for a book not found) reads the list
\* that the one request returned
C4_BookListMemo ==
    /\ Len(Requests("books")) <= 1
    /\ TruthyField(bookListCache) => Len(Requests("books")) = 1
    /\ pc \in {"findBook", "printBookListError"} =>
          /\ got.req = Req("books", 0)
          /\ bookListCache = got.resp.body.items
    /\ (log # <<>> /\ log[Len(log)].what = "books") =>
          log[Len(log)].list = bookListCache.elems

\* the second lookup of a run has printed the list
C4_Witness ==
    /\ pc = "catch"
    /\ err.kind = "NotFound"
    /\ log[Len(log)] = [fd |-> "err", what |-> "books", list |-> BookList]

\* the book id is no code of the list fetched
NotInList == IsArray(bookListCache)
             /\ \A i \in 1..Len(bookListCache.elems) :
                   bookListCache.elems[i].usfm # args.bookId.s

\* C5: a download run that looks its book up in a list without it fails with
\* the not-found error; the whole list is on the error output when the error
\* is thrown; no directory is made, and no metadata or audio is requested
C5_BookNotFound ==
    /\ (~informational(args) /\ NotInList) =>
          /\ dirs = {}
          /\ ChapterRequests = <<>>
          /\ pc \in {"findBook", "fetchBookList", "printBookListError", "catch",
                     "exited"}
          /\ pc \in {"catch", "exited"} => err.kind = "NotFound"
    /\ (pc = "catch" /\ err.kind = "NotFound") =>
          /\ NotInList
          /\ log[Len(log)] =
                [fd |-> "err", what |-> "books", list |-> bookListCache.elems]

\* a run of r2 or r3 whose book, typed in lower case, is not in the
\* two-book list has ended
C5_Witness ==
    /\ Exited
    /\ err.kind = "NotFound"
    /\ rev # "r1"
    /\ argv[1] = <<"1">>
    /\ args.bookId = Str(<<"1">>)
    /\ Len(bookListCache.elems) = 2

\* the last JSON response is a parsed object, the answer to a request of
\* one of these kinds
Received(kinds) ==
    /\ got.req.kind \in kinds
    /\ got.resp.net = "ok"
    /\ got.resp.parsed
    /\ got.resp.body.type = "object"

\* the run was aborted by the last JSON response: the error is the
\* malformed-response error with the payload (on a status other than 200 the
\* payload itself is what is thrown)
AbortedWithPayload ==
    /\ pc \in {"catch", "exited"}
    /\ err.payload = got.resp.body
    /\ err.kind = IF got.resp.status = 200 THEN "Unexpected" ELSE "Rejected"

\* nothing was done with the items of the last JSON response: no list
\* cached, no list of its kind printed, no range computed from the chapters,
\* no book looked up
NoListUsed ==
    /\ bookListCache = NullCache
    /\ \A i \in 1..Len(log) : log[i].what # got.req.kind
    /\ got.req.kind = "chapters" => range = <<>>
    /\ err.kind # "NotFound"

\* C6: a catalog response (translations, books, chapters) whose items are
\* missing or are no array fails the run with the malformed-response error
\* that carries the payload; the items are not taken for an empty list, not
\* reported as a book not found, and not cached
C6_MalformedCatalog ==
    (Received({"translations", "books", "chapters"}) /\ ~IsArray(got.resp.body.items))
        => (AbortedWithPayload /\ NoListUsed)

\* C6 for the two revisions that test Array.isArray
C6_ArrayTested == rev # "r1" => C6_MalformedCatalog

\* the chapter expression is N-M, with these N and M
IsRangeExpression ==
    /\ Truthy(args.chapters)
    /\ matchChapters(args.chapters.s)
    /\ \E i \in 1..Len(args.chapters.s) : args.chapters.s[i] = "-"
ExprN == Number(split(args.chapters.s)[1])
ExprM == Number(split(args.chapters.s)[2])
\* the range resolver has returned
RangeReturned == pc = "mkdir"

\* C7: for the expression N-M, the resolver returns start = N, end = M if
\* M > N, and throws the invalid-range error, returning no range, if M <= N
C7_RangeParser ==
    IsRangeExpression =>
        /\ (RangeReturned /\ ExprM > ExprN) =>
               (range[1] = ExprN /\ range[2] = ExprM)
        /\ ExprM <= ExprN =>
               /\ ~RangeReturned
               /\ range = <<>>
               /\ (pc = "catch" /\ got.req.kind # "chapters") =>
                      err.kind = "InvalidRange"

\* the range returned, and the total the catalog reported if it was asked
RangeStart == range[1]
RangeEnd == loopEnd(range)
TotalReported == got.req.kind = "chapters"
Total == Len(got.resp.body.items.elems)

\* C8 as stated: every range returned satisfies 1 <= start <= end <= total
C8_RangeWithinTotal ==
    RangeReturned =>
        /\ 1 <= RangeStart
        /\ RangeStart <= RangeEnd
        /\ TotalReported => RangeEnd <= Total

\* C8 as amended: for a given expression the range satisfies
\* 0 <= start <= end, with start the expression's first number; for no
\* expression it is [1, total]; r3 returns the total reported with it
C8_RangeAsResolved ==
    RangeReturned =>
        /\ IF Truthy(args.chapters)
           THEN /\ RangeStart = Number(split(args.chapters.s)[1])
                /\ 0 <= RangeStart
                /\ RangeStart <= RangeEnd
           ELSE /\ TotalReported
                /\ RangeStart = 1
                /\ RangeEnd = Total
        /\ rev = "r3" => (TotalReported /\ range[3] = Total)

\* r3 has returned a range, for a given expression, that ends after the
\* book's last chapter
C8_Witness ==
    /\ RangeReturned
    /\ rev = "r3"
    /\ Truthy(args.chapters)
    /\ range[2] > range[3]
    /\ range[3] > 0

\* the metadata has no non-empty audio list, or its first entry has no
\* download_urls or no format_mp3_32k in them
LacksAudio(json) ==
    \/ ~IsArray(json.audio)
    \/ Len(json.audio.elems) = 0
    \/ /\ json.audio.elems[1].type = "object"
       /\ \/ json.audio.elems[1].download_urls.type = "undefined"
          \/ ~json.audio.elems[1].download_urls.format_mp3_32k.def

\* the same, or the body or the first audio entry is the JSON null
LacksAudioOrNull(json) ==
    \/ json.type = "null"
    \/ LacksAudio(json)
    \/ json.audio.elems[1].type = "null"

Completed ==
    /\ Exited
    /\ exitCode = 0
    /\ log # <<>>
    /\ log[Len(log)].what = "finished"

\* C10: a completed run has written its end - start + 1 chapters to as many
\* different .mp3 paths in the one directory made, and these are the files
\* on disk
C10_OneFilePerChapter ==
    Completed =>
        LET n == RangeEnd - RangeStart + 1 IN
        /\ Len(writes) = n
        /\ \A i, j \in 1..Len(writes) : i # j => writes[i].path # writes[j].path
        /\ \A i \in 1..Len(writes) :
              LET path == writes[i].path IN
              /\ startsWith(path, dirname \o <<"/">>)
              /\ SubSeq(path, Len(path) - 3, Len(path)) = Mp3
        /\ DOMAIN files = {writes[i].path : i \in 1..Len(writes)}
        /\ Cardinality(DOMAIN files) = n
        /\ dirs = {dirname}

\* C10 for the two revisions that name the files by the chapter's number
C10_NumberedFiles == rev # "r2" => C10_OneFilePerChapter

\* something of this kind was printed on this stream
Printed(fd, what) == \E i \in 1..Len(log) : log[i].fd = fd /\ log[i].what = what

\* an error has occurred: a step failed or something was thrown
ErrorOccurred == failed \/ err # NoError

\* the informational modes asked for have printed their output
InformationalDone ==
    /\ informational(args)
    /\ args.help => Printed("out", "help")
    /\ args.listTranslations => Printed("out", "translations")
    /\ args.listBooks => Printed("out", "books")

\* every chapter of the resolved range was downloaded and written, in order
AllChaptersWritten ==
    /\ range # <<>>
    /\ Len(writes) = IF RangeEnd >= RangeStart THEN RangeEnd - RangeStart + 1 ELSE 0
    /\ \A i \in 1..Len(writes) :
          /\ writes[i].chapter = RangeStart + i - 1
          /\ Req("metadata", writes[i].chapter) \in {reqLog[k] : k \in 1..Len(reqLog)}
          /\ Req("audio", writes[i].chapter) \in {reqLog[k] : k \in 1..Len(reqLog)}

\* C11: the process exits with 0 exactly when no error occurred, and then an
\* informational mode has finished or every chapter of the range was
\* downloaded and written; else the error is the last thing written to the
\* error stream and the exit code is 1; the completion message is never
\* printed once an error has occurred
C11_ExitCode ==
    /\ Exited =>
          /\ exitCode \in {0, 1}
          /\ exitCode = 0 <=> ~ErrorOccurred
          /\ exitCode = 0 =>
                IF informational(args) THEN InformationalDone /\ ~Printed("out", "finished")
                ELSE Completed /\ AllChaptersWritten
          /\ exitCode # 0 =>
                /\ log[Len(log)] = [fd |-> "err", what |-> "error", list |-> <<>>]
                /\ err # NoError
    /\ ErrorOccurred => ~Printed("out", "finished")
    /\ ~Exited => exitCode = -1

\* a run whose second chapter's download failed has ended with code 1, the
\* first chapter written
C11_Witness ==
    /\ Exited
    /\ exitCode = 1
    /\ Len(writes) = 1
    /\ reqLog[Len(reqLog)] = Req("audio", range[1] + 1)
    /\ log[Len(log)].what = "error"

\* fetchMetadata has returned: the URL of the metadata it received
UrlReturned == pc = "download" /\ got.req = Req("metadata", c)
MetadataUrl == got.resp.body.audio.elems[1].download_urls.format_mp3_32k.s

\* C12: the audio URL returned is the metadata's URL with https: before it
\* if that URL begins with //, and the metadata's URL itself if not;
\* normalizing the URL returned gives the same URL
C12_AudioUrl ==
    UrlReturned =>
        /\ IF Len(MetadataUrl) >= 2 /\ MetadataUrl[1] = "/" /\ MetadataUrl[2] = "/"
           THEN audioUrl = <<"h", "t", "t", "p", "s", ":">> \o MetadataUrl
           ELSE audioUrl = MetadataUrl
        /\ normalizeUrl(audioUrl) = audioUrl

\* the metadata's URL was //a, and https://a is being downloaded
C12_Witness ==
    /\ UrlReturned
    /\ MetadataUrl = <<"/", "/", "a">>
    /\ audioUrl = <<"h", "t", "t", "p", "s", ":", "/", "/", "a">>
    /\ inflight = {Req("audio", c)}

\* the chapter expression is given and is no number and no N-M
ExprMalformed == Truthy(args.chapters) /\ ~matchChapters(args.chapters.s)
\* the chapter expression is a range the resolver rejects: N-M, 1 <= M <= N
ExprRejected == IsRangeExpression /\ 1 <= ExprM /\ ExprM <= ExprN
\* the error of the resolver for this expression
ExprError == IF ExprMalformed THEN "ChapterFormat" ELSE "InvalidRange"
\* the run has not got past the range resolver, and ends in failure
FailsInResolver ==
    /\ pc \in {"main", "listTranslations", "checkTranslationId", "listBooks",
               "exitCheck", "getChapterRange", "fetchChapters", "catch", "exited"}
    /\ range = <<>>
    /\ Exited => exitCode = 1
\* nothing was cached, made or written
NoLocalEffect ==
    /\ bookListCache = NullCache
    /\ dirs = {}
    /\ files = <<>>
    /\ writes = <<>>

\* C13 as stated: for a malformed or rejected chapter expression the run
\* fails in the resolver with no request sent, nothing cached and no
\* directory made
C13_NoSideEffect ==
    (~informational(args) /\ (ExprMalformed \/ ExprRejected)) =>
        /\ FailsInResolver
        /\ NoLocalEffect
        /\ reqLog = <<>>
        /\ pc = "catch" => err.kind = ExprError

\* C13 as amended: the same, but r3 rejects a range only after it has
\* asked the catalog for the book's chapters: that one request is sent, and
\* the error is the resolver's unless the request failed
C13_FailsInResolver ==
    (~informational(args) /\ (ExprMalformed \/ ExprRejected)) =>
        /\ FailsInResolver
        /\ NoLocalEffect
        /\ IF rev = "r3" /\ ExprRejected
           THEN /\ reqLog = IF pc \in {"fetchChapters", "catch", "exited"}
                            THEN <<Req("chapters", 0)>> ELSE <<>>
                /\ pc = "catch" =>
                      \/ err.kind = "InvalidRange"
                      \/ failed /\ BadResponse(got.resp)
                      \/ hasItems(got.resp.body) # "ok"
           ELSE /\ reqLog = <<>>
                /\ pc = "catch" => err.kind = ExprError

\* r3 has rejected the range 2-1 after the catalog answered its request
C13_Witness ==
    /\ pc = "catch"
    /\ rev = "r3"
    /\ args.chapters = Str(<<"2", "-", "1">>)
    /\ err.kind = "InvalidRange"
    /\ reqLog = <<Req("chapters", 0)>>
    /\ got.resp.status = 200

\* r2 has rejected an expression of letters with no request sent
C13_WitnessFormat ==
    /\ pc = "catch"
    /\ rev = "r2"
    /\ args.chapters = Str(<<"g">>)
    /\ err.kind = "ChapterFormat"
    /\ reqLog = <<>>

====
